---- MODULE Spec2Model ----
(***************************************************************************)
(* Model of tx2uml's data-acquisition clients (src/lib/tx2uml.js):         *)
(*   - the Alethio indexer client (getTransactionDetails,                  *)
(*     getContractMessages, getContractMessagesRecursive, convertType),    *)
(*   - the Geth client (GethClient.getTransactionTrace, addTraces,         *)
(*     convertType, parseReasonCode).                                      *)
(* One client call runs at a time: pc = "idle" before the call, a         *)
(* "*_wait" value while an HTTP request is in flight, "done" after the     *)
(* call has returned or thrown.                                            *)
(***************************************************************************)
EXTENDS Integers, Sequences, FiniteSets, TLC

VARIABLES
    pc,         \* "idle", "<call>_wait" while a request is in flight, "done"
    call,       \* the entry point called and its arguments
    requests,   \* the HTTP requests issued so far, in order
    result,     \* how the call ended: [kind, error, cause]
    traces,     \* GethClient: the traces list filled by addTraces
    nextId,     \* GethClient: the id returned by the outermost addTraces
    jsonRpcId,  \* GethClient: this.jsonRpcId
    reason,     \* GethClient: the string returned by parseReasonCode
    authorization, \* axios.defaults.headers.common["Authorization"]
    server,     \* Alethio: the network holding the transaction, its pages
    messages,   \* Alethio: the messages collected by getContractMessages
    details     \* Alethio: the pair returned by getTransactionDetails

vars == <<pc, call, requests, result, traces, nextId, jsonRpcId, reason,
          authorization, server, messages, details>>

gethVars == <<traces, nextId, jsonRpcId, reason>>
alethioVars == <<authorization, server, messages, details>>

\* JavaScript's undefined
Undefined == "undefined"

(***************************************************************************)
(* Bounds                                                                  *)
(***************************************************************************)
\* largest number of nodes of a call-response tree
MaxNodes == 4
\* largest number of contract messages of a transaction
MaxMsgs == 3
\* largest number of pages the indexer cuts the messages into
MaxPages == 3

(***************************************************************************)
(* Geth call-response trees (type CallResponse)                            *)
(***************************************************************************)
\* externally owned account sending the transaction, and contract addresses
Sender == "Root"
Contracts == {"A", "B", "C"}
\* values of CallResponse.type the model draws from; the top-level call of
\* a transaction is a CALL
CallTypes == {"CALL", "DELEGATECALL"}
ErrorText == "execution reverted"

\* the address whose storage context a call executes in: a DELEGATECALL (and
\* a CALLCODE) keeps the caller's context, every other call enters `to`
ExecContext(type, from, to) ==
    IF type \in {"DELEGATECALL", "CALLCODE"} THEN from ELSE to

\* A tree is drawn as a flat description: n nodes numbered level by level
\* (node 1 is the root, parent[i] < i, parents non-decreasing), a type and a
\* callee per node, and the number of the one node carrying an error (0: no
\* node does).
TreeShapes(n) ==
    { parent \in [2..n -> 1..n] :
        \A i \in 2..n : /\ parent[i] < i
                        /\ (i > 2 => parent[i - 1] <= parent[i]) }

\* the children of node i, in their order
ChildrenOf(d, i) ==
    LET S == { j \in 2..d.n : d.parent[j] = i }
    IN [k \in 1..Cardinality(S) |->
          CHOOSE j \in S : Cardinality({ x \in S : x < j }) = k - 1]

RECURSIVE BuildCallResponse(_, _, _)
\* the nested CallResponse object of node i of description d; a child call's
\* `from` is the context its parent executes in, as the callTracer reports it
BuildCallResponse(d, i, from) ==
    LET kids == ChildrenOf(d, i)
    IN [type |-> d.type[i], from |-> from, to |-> d.to[i],
        error |-> IF d.errAt = i THEN ErrorText ELSE Undefined,
        calls |-> [k \in 1..Len(kids) |->
                     BuildCallResponse(d, kids[k],
                                       ExecContext(d.type[i], from, d.to[i]))]]

(***************************************************************************)
(* Geth client: addTraces                                                  *)
(***************************************************************************)
gethConvertType(trace) ==
    IF trace.type = "DELEGATECALL" THEN "DelegateCall"
    ELSE IF trace.type = "STATICCALL" THEN "StaticCall"
    ELSE IF trace.type = "CREATE" \/ trace.type = "CREATE2" THEN "Create"
    ELSE IF trace.type = "SELFDESTRUCT" THEN "Selfdestruct"
    ELSE "Call"

RECURSIVE addTraces(_, _, _, _, _), forEachCall(_, _, _, _, _)

\* A trace refers to its parent and children by their position in the traces
\* list (0: no parentTrace); the list holds the very objects the references
\* point to, so a push to parentTrace.childTraces is an update of the list.

\* (variant: the caller's own address, whatever the parent's type)
delegatedFromOf_ownFrom(callResponse, trs, parentTrace) ==
    callResponse.from

\* (variant: keyed on the type of the call itself, not of its parent)
delegatedFromOf_ownType(callResponse, trs, parentTrace) ==
    IF parentTrace # 0 /\ gethConvertType(callResponse) = "DelegateCall"
    THEN trs[parentTrace].to
    ELSE callResponse.from

delegatedFromOf(callResponse, trs, parentTrace) ==
    IF parentTrace # 0 /\ trs[parentTrace].type = "DelegateCall"
    THEN trs[parentTrace].to
    ELSE callResponse.from

\* the fields of a trace that depend on the call tree; value, inputs,
\* funcSelector, outputs, gasLimit and gasUsed are copies of the call's own
\* fields and are left out
newTraceOf(callResponse, trs, id, depth, parentTrace) ==
    [id |-> id,
     type |-> gethConvertType(callResponse),
     from |-> callResponse.from,
     delegatedFrom |-> delegatedFromOf(callResponse, trs, parentTrace),
     to |-> callResponse.to,
     parentTrace |-> parentTrace,
     childTraces |-> <<>>,
     depth |-> depth,
     error |-> callResponse.error]

\* (variant: the id returned by a child's addTraces is dropped)
forEachCall_idNotThreaded(calls, k, acc, depth, newTrace) ==
    IF k > Len(calls)
    THEN acc
    ELSE forEachCall(calls, k + 1,
                     [traces |-> addTraces(calls[k], acc.traces, acc.id,
                                           depth + 1, newTrace).traces,
                      id |-> acc.id],
                     depth, newTrace)

\* (variant: children are added at their parent's depth)
forEachCall_sameDepth(calls, k, acc, depth, newTrace) ==
    IF k > Len(calls)
    THEN acc
    ELSE forEachCall(calls, k + 1,
                     addTraces(calls[k], acc.traces, acc.id, depth, newTrace),
                     depth, newTrace)

\* (variant: the loop over the children ends at the first failed child)
forEachCall_stopOnError(calls, k, acc, depth, newTrace) ==
    IF k > Len(calls) \/ (k > 1 /\ calls[k - 1].error # Undefined)
    THEN acc
    ELSE forEachCall(calls, k + 1,
                     addTraces(calls[k], acc.traces, acc.id, depth + 1, newTrace),
                     depth, newTrace)

\* callResponse.calls.forEach(childCall => { id = addTraces(childCall,
\* traces, id, depth + 1, newTrace) }), from the k-th child on; acc holds the
\* traces list and id
forEachCall(calls, k, acc, depth, newTrace) ==
    IF k > Len(calls)
    THEN acc
    ELSE forEachCall(calls, k + 1,
                     addTraces(calls[k], acc.traces, acc.id, depth + 1, newTrace),
                     depth, newTrace)

\* the traces list after the call, and the id returned
addTraces(callResponse, trs, id, depth, parentTrace) ==
    LET newTrace == newTraceOf(callResponse, trs, id, depth, parentTrace)
        linked == IF parentTrace # 0
                  THEN [trs EXCEPT ![parentTrace].childTraces = Append(@, Len(trs) + 1)]
                  ELSE trs
        pushed == Append(linked, newTrace)
    IN forEachCall(callResponse.calls, 1, [traces |-> pushed, id |-> id + 1],
                   depth, Len(pushed))

(***************************************************************************)
(* JavaScript strings: a string is the sequence of its characters          *)
(***************************************************************************)
HexChars == <<"0", "1", "2", "3", "4", "5", "6", "7",
              "8", "9", "a", "b", "c", "d", "e", "f">>
UpperHexChars == <<"A", "B", "C", "D", "E", "F">>

IsHexChar(c) ==
    \/ \E i \in 1..16 : HexChars[i] = c
    \/ \E i \in 1..6 : UpperHexChars[i] = c

HexVal(c) ==
    IF \E i \in 1..16 : HexChars[i] = c
    THEN (CHOOSE i \in 1..16 : HexChars[i] = c) - 1
    ELSE (CHOOSE i \in 1..6 : UpperHexChars[i] = c) + 9

\* String.prototype.slice(start, end) for 0 <= start; an end beyond the
\* string is the string's length
Slice(str, start, end) ==
    LET e == IF end > Len(str) THEN Len(str) ELSE end
    IN IF start >= e THEN <<>> ELSE SubSeq(str, start + 1, e)

\* str.startsWith(prefix)
StartsWith(str, prefix) ==
    /\ Len(str) >= Len(prefix)
    /\ SubSeq(str, 1, Len(prefix)) = prefix

(***************************************************************************)
(* regEx.transactionHash                                                   *)
(***************************************************************************)
\* txHash.match(transactionHash): 0x followed by exactly 64 hex digits
transactionHash(txHash) ==
    /\ Len(txHash) = 2 + 64
    /\ txHash[1] = "0"
    /\ txHash[2] = "x"
    /\ \A i \in 3..Len(txHash) : IsHexChar(txHash[i])

HexRun(n) == [i \in 1..n |-> HexChars[((i * 7) % 16) + 1]]

ValidHash == <<"0", "x">> \o HexRun(64)
NotAHash == <<"n", "o", "t", "-", "a", "-", "h", "a", "s", "h">>
\* the hashes a caller passes in the model: a well-formed one, "not-a-hash",
\* the empty string, one digit short, one digit long, no 0x prefix, a
\* non-hex digit
TxHashes ==
    { ValidHash, NotAHash, <<>>,
      <<"0", "x">> \o HexRun(63),
      <<"0", "x">> \o HexRun(65),
      HexRun(64),
      <<"0", "x">> \o HexRun(63) \o <<"g">> }

(***************************************************************************)
(* Geth client: parseReasonCode                                            *)
(***************************************************************************)
\* JavaScript's NaN
NaN == -1

\* Numbers too large for any index of a string of the model all act alike
\* in slice(); the value is kept exact below this threshold and is the
\* threshold above it.
Saturate(n) == IF n > 1000000 THEN 1000000 ELSE n

RECURSIVE HexDigitsValue(_, _, _)
\* the value of the hex digits of str at positions i..j, acc being the value
\* of the digits read so far
HexDigitsValue(str, i, j) ==
    IF i > j THEN 0
    ELSE HexDigitsValue(str, i, j - 1) * 16 + HexVal(str[j])

\* the value of the longest run of hex digits at the start of str (which
\* starts with one): leading zeros add nothing, and more than five digits
\* after them exceed the threshold of Saturate
HexRunValue(str) ==
    LET stop == IF \A i \in 1..Len(str) : IsHexChar(str[i])
                THEN Len(str)
                ELSE (CHOOSE i \in 1..Len(str) :
                        /\ ~IsHexChar(str[i])
                        /\ \A k \in 1..(i - 1) : IsHexChar(str[k])) - 1
        first == IF \A i \in 1..stop : str[i] = "0"
                 THEN stop + 1
                 ELSE CHOOSE i \in 1..stop :
                        /\ str[i] # "0"
                        /\ \A k \in 1..(i - 1) : str[k] = "0"
    IN IF stop - first + 1 > 5
       THEN Saturate(1000001)
       ELSE Saturate(HexDigitsValue(str, first, stop))

\* parseInt(str, 16): an optional 0x prefix, then the longest run of hex
\* digits; NaN when there is no digit
parseInt16(str) ==
    LET body == IF StartsWith(str, <<"0", "x">>) \/ StartsWith(str, <<"0", "X">>)
                THEN Slice(str, 2, Len(str))
                ELSE str
    IN IF Len(body) = 0 \/ ~IsHexChar(body[1])
       THEN NaN
       ELSE HexRunValue(body)

\* the failure value of a decoder
DecodeError == [ok |-> FALSE, str |-> <<>>]

\* arrayify("0x" + hex): the bytes of an even-length string of hex digits
HexToBytes(hex) ==
    IF Len(hex) % 2 # 0 \/ \E i \in 1..Len(hex) : ~IsHexChar(hex[i])
    THEN [ok |-> FALSE, bytes |-> <<>>]
    ELSE [ok |-> TRUE,
          bytes |-> [k \in 1..(Len(hex) \div 2) |->
                       HexVal(hex[2 * k - 1]) * 16 + HexVal(hex[2 * k])]]

IsContinuation(bytes, i) ==
    i <= Len(bytes) /\ bytes[i] >= 128 /\ bytes[i] <= 191

\* the number of continuation bytes right after position i
ContinuationRun(bytes, i) ==
    CHOOSE n \in 0..(Len(bytes) - i) :
        /\ \A k \in 1..n : IsContinuation(bytes, i + k)
        /\ ~IsContinuation(bytes, i + n + 1)

\* the number of continuation bytes the lead byte b asks for; -1 when b is
\* no lead byte
Utf8Need(b) ==
    IF b < 128 THEN 0
    ELSE IF b >= 194 /\ b <= 223 THEN 1
    ELSE IF b >= 224 /\ b <= 239 THEN 2
    ELSE IF b >= 240 /\ b <= 244 THEN 3
    ELSE -1

\* the code point of the sequence starting at the lead byte at position i
Utf8CodePoint(bytes, i) ==
    LET b == bytes[i] IN
    IF b < 128 THEN b
    ELSE IF b <= 223 THEN (b - 192) * 64 + (bytes[i + 1] - 128)
    ELSE IF b <= 239 THEN (b - 224) * 4096 + (bytes[i + 1] - 128) * 64
                          + (bytes[i + 2] - 128)
    ELSE (b - 240) * 262144 + (bytes[i + 1] - 128) * 4096
         + (bytes[i + 2] - 128) * 64 + (bytes[i + 3] - 128)

\* the smallest code point a sequence of n continuation bytes may encode
Utf8Least(n) ==
    IF n = 0 THEN 0 ELSE IF n = 1 THEN 128 ELSE IF n = 2 THEN 2048 ELSE 65536

\* the code points of a UTF-8 byte sequence; an invalid, overlong or
\* truncated sequence is a decode error.  A sequence starts at every byte
\* that is no continuation byte.
Utf8Decode(bytes) ==
    LET starts == { i \in 1..Len(bytes) : ~IsContinuation(bytes, i) }
        wellFormed ==
            /\ Len(bytes) > 0 => 1 \in starts
            /\ \A i \in starts :
                 /\ Utf8Need(bytes[i]) = ContinuationRun(bytes, i)
                 /\ LET cp == Utf8CodePoint(bytes, i) IN
                      /\ cp >= Utf8Least(Utf8Need(bytes[i]))
                      /\ cp <= 1114111
                      /\ ~(cp >= 55296 /\ cp <= 57343)
    IN IF ~wellFormed THEN DecodeError
       ELSE [ok |-> TRUE,
             str |-> [k \in 1..Cardinality(starts) |->
                        Utf8CodePoint(bytes,
                          CHOOSE i \in starts :
                            Cardinality({ j \in starts : j < i }) = k - 1)]]

\* toUtf8String("0x" + hex): the string (as code points) or a thrown error
toUtf8String(hex) ==
    LET b == HexToBytes(hex)
    IN IF b.ok THEN Utf8Decode(b.bytes) ELSE DecodeError

\* (variant: the length is read from the offset word)
strLenOf_offsetWord(messageData) == parseInt16(Slice(messageData, 8, 8 + 64))

\* messageData.slice(8 + 64, 8 + 128) parsed as the length of the reason
strLenOf(messageData) == parseInt16(Slice(messageData, 8 + 64, 8 + 128))

\* messageData.slice(8 + 128, 8 + 128 + strLen * 2); a NaN end is 0
reasonCodeHexOf(messageData, strLen) ==
    IF strLen = NaN
    THEN <<>>
    ELSE Slice(messageData, 8 + 128, 8 + 128 + strLen * 2)

parseReasonCode(messageData) ==
    toUtf8String(reasonCodeHexOf(messageData, strLenOf(messageData)))

(***************************************************************************)
(* Error(string) revert payloads                                           *)
(***************************************************************************)
\* longest reason string drawn letter by letter
MaxReasonLen == 2

\* code points the reason strings are made of: "a" and "e" with acute accent
\* (one and two bytes of UTF-8)
ReasonAlphabet == {97, 233}

\* "insufficient balance"
InsufficientBalance ==
    <<105, 110, 115, 117, 102, 102, 105, 99, 105, 101, 110, 116, 32,
      98, 97, 108, 97, 110, 99, 101>>
\* a reason longer than one 32-byte word
LongReason == [i \in 1..33 |-> 97]

ReasonStrings ==
    UNION { [1..n -> ReasonAlphabet] : n \in 0..MaxReasonLen }
      \cup {InsufficientBalance, LongReason}

RECURSIVE Flatten(_, _, _)
\* the concatenation of the sequences seqs[lo], ..., seqs[hi]
Flatten(seqs, lo, hi) ==
    IF lo > hi THEN <<>>
    ELSE IF lo = hi THEN seqs[lo]
    ELSE LET mid == (lo + hi) \div 2
         IN Flatten(seqs, lo, mid) \o Flatten(seqs, mid + 1, hi)

\* the UTF-8 bytes of a string of code points below 2048
Utf8Encode(str) ==
    Flatten([i \in 1..Len(str) |->
               IF str[i] < 128 THEN <<str[i]>>
               ELSE <<192 + (str[i] \div 64), 128 + (str[i] % 64)>>],
            1, Len(str))

ByteHex(b) == <<HexChars[(b \div 16) + 1], HexChars[(b % 16) + 1]>>

BytesHex(bytes) ==
    [i \in 1..(2 * Len(bytes)) |-> ByteHex(bytes[(i + 1) \div 2])[2 - (i % 2)]]

\* a 32-byte big-endian word holding n < 2^16, as 64 hex digits
WordHex(n) ==
    [i \in 1..60 |-> "0"] \o ByteHex(n \div 256) \o ByteHex(n % 256)

\* the selector of Error(string)
ErrorSelector == <<"0", "8", "c", "3", "7", "9", "a", "0">>

\* the bytes padded with zeros to a multiple of 32
PadTo32(bytes) ==
    bytes \o [i \in 1..((32 - (Len(bytes) % 32)) % 32) |-> 0]

\* selector, offset word (0x20), length word, padded payload: no 0x prefix
EncodeErrorBytes(bytes) ==
    ErrorSelector \o WordHex(32) \o WordHex(Len(bytes)) \o BytesHex(PadTo32(bytes))

EncodeError(str) == EncodeErrorBytes(Utf8Encode(str))

ZeroX == <<"0", "x">>
RevertedZeroX == <<"R", "e", "v", "e", "r", "t", "e", "d", " ", "0", "x">>

\* lengths a payload is cut to: nothing, the selector only, selector and
\* offset word, part of the length word, one digit short of the length word
Truncations == {0, 8, 8 + 64, 8 + 64 + 10, 8 + 128 - 1}

\* hex payloads without prefix: well-formed ones, truncated ones, one whose
\* payload is not UTF-8
HexPayloads ==
    { EncodeError(str) : str \in ReasonStrings }
      \cup { Slice(EncodeError(InsufficientBalance), 0, k) : k \in Truncations }
      \cup { EncodeErrorBytes(<<255>>) }

\* the strings handed to parseReasonCode, with and without 0x prefix
MessageDatas == HexPayloads \cup { ZeroX \o h : h \in HexPayloads }

(***************************************************************************)
(* Alethio client                                                          *)
(***************************************************************************)
alethioBaseUrls ==
    [mainnet |-> "https://api.aleth.io/v1",
     ropsten |-> "https://api.ropsten.aleth.io/v1",
     rinkeby |-> "https://api.rinkebyaleth.io/v1",
     kovan |-> "https://api.kovan.aleth.io/v1"]

\* the default value of the parameter network = "mainnet"
networkOrDefault(network) == IF network = Undefined THEN "mainnet" ELSE network

\* the networks a transaction lives on, and the network arguments a caller
\* passes (none, or the name of a network), in the model
Networks == {"mainnet", "ropsten"}
NetworkArgs == {Undefined, "ropsten"}
ApiKeys == {Undefined, "key"}

\* the msgType tags of the indexer: message-level and transaction-level
\* ones, and one the client does not know
MsgTypes ==
    {"CallContractMsg", "CallTx", "ValueContractMsg", "ValueTx",
     "CreateContractMsg", "CreateTx", "SelfdestructContractMsg",
     "SelfdestructTx", "UnknownMsg"}
\* the tags of the contract messages of a page in the model
PageMsgTypes == {"CallContractMsg", "CreateContractMsg"}

convertType(msgType) ==
    IF msgType = "ValueContractMsg" \/ msgType = "ValueTx" THEN "Value"
    ELSE IF msgType = "CreateContractMsg" \/ msgType = "CreateTx" THEN "Value"
    ELSE IF msgType = "SelfdestructContractMsg" \/ msgType = "SelfdestructTx"
    THEN "Selfdestruct"
    ELSE "Call"

\* (variant: only the 0x prefix is looked at)
hashRejected_prefixOnly(txHash) ==
    ~StartsWith(txHash, ZeroX)

\* !txHash.match(regEx_1.transactionHash)
hashRejected(txHash) == ~transactionHash(txHash)

\* the message built from one contractMessage of a response; from, to,
\* value, payload, gasUsed, gasLimit, callDepth and error are copies or plain
\* conversions of the record's fields and are left out
messageOf(contractMessage) ==
    [id |-> contractMessage.cmsgIndex,
     type |-> convertType(contractMessage.msgType),
     status |-> ~contractMessage.msgError]

messagesOf(data) == [i \in 1..Len(data) |-> messageOf(data[i])]

RECURSIVE insertById(_, _)
\* msgs (sorted) with m put after the last message whose id is not larger
insertById(msgs, m) ==
    IF Len(msgs) = 0 THEN <<m>>
    ELSE IF msgs[Len(msgs)].id - m.id > 0
         THEN Append(insertById(SubSeq(msgs, 1, Len(msgs) - 1), m), msgs[Len(msgs)])
         ELSE Append(msgs, m)

RECURSIVE sortById(_)
\* messages.sort((a, b) => a.id - b.id): a stable sort by id
sortById(msgs) ==
    IF Len(msgs) = 0 THEN <<>>
    ELSE insertById(sortById(SubSeq(msgs, 1, Len(msgs) - 1)), msgs[Len(msgs)])

\* str.split('=').pop(): what follows the last "=", the whole string when
\* there is none
splitPop(str) ==
    LET eqs == { i \in 1..Len(str) : str[i] = "=" }
    IN IF eqs = {} THEN str
       ELSE Slice(str, CHOOSE i \in eqs : \A j \in eqs : j <= i, Len(str))

\* --- the indexer ---
\* the cursor under which the indexer serves page k
CursorOf(k) == <<"p", HexChars[k + 1]>>
LinkPrefix == <<"?", "l", "=", "1", "0", "0", "&", "n", "=">>

\* the sequences of n distinct message indexes 0..n-1, in any order
Orders(n) ==
    { o \in [1..n -> 0..(n - 1)] : \A i, j \in 1..n : i # j => o[i] # o[j] }

\* the ways to cut n messages into np pages: cut[k] is the number of
\* messages on the pages 1..k; every page holds a message, but a transaction
\* without messages has one empty page
Cuts(n, np) ==
    { c \in [0..np -> 0..n] :
        /\ c[0] = 0 /\ c[np] = n
        /\ \A k \in 1..np : c[k - 1] < c[k] \/ (n = 0 /\ np = 1) }

\* what the pages of a transaction can look like: brokenAt is the page
\* (signalling hasNext) whose next link is unusable, 0 when there is none;
\* brokenKind tells whether the link ends in "=" or is missing
PageSets ==
    UNION { UNION {
        { [order |-> o, msgType |-> t, cut |-> c, np |-> np,
           brokenAt |-> b.at, brokenKind |-> b.kind]
          : o \in Orders(n), t \in [1..n -> PageMsgTypes], c \in Cuts(n, np),
            b \in {[at |-> 0, kind |-> "none"]}
                    \cup { [at |-> k, kind |-> kind]
                           : k \in 1..(np - 1), kind \in {"emptyCursor", "noLink"} } }
        : np \in 1..MaxPages } : n \in 0..MaxMsgs }

\* page k of the pages ps, as the response body of the indexer
PageOf(ps, k) ==
    [data |-> [i \in 1..(ps.cut[k] - ps.cut[k - 1]) |->
                 [cmsgIndex |-> ps.order[ps.cut[k - 1] + i],
                  msgType |-> ps.msgType[ps.cut[k - 1] + i],
                  msgError |-> FALSE]],
     hasNext |-> k < ps.np,
     hasLink |-> ~(ps.brokenAt = k /\ ps.brokenKind = "noLink"),
     next |-> IF ps.brokenAt = k THEN LinkPrefix
              ELSE LinkPrefix \o CursorOf(k + 1)]

NotFound == [found |-> FALSE, page |-> 0]

\* the indexer's answer to a request: the first page without cursor, the
\* page served under the cursor with one; a request to the base URL of a
\* network that does not hold the transaction, or with a cursor the indexer
\* never handed out, is answered 404
Respond(srv, request) ==
    IF request.base # alethioBaseUrls[srv.home] THEN NotFound
    ELSE IF request.cursor = <<>> THEN [found |-> TRUE, page |-> 1]
    ELSE IF \E k \in 2..srv.pages.np : CursorOf(k) = request.cursor
    THEN [found |-> TRUE,
          page |-> CHOOSE k \in 2..srv.pages.np : CursorOf(k) = request.cursor]
    ELSE NotFound

\* getContractMessagesRecursive(txHash, cursor, messages, apiKey, network) up
\* to its await of axios.get: the error thrown, or the request issued
getContractMessagesRecursive(txHash, cursor, msgs, apiKey, network) ==
    IF hashRejected(txHash) \/ Len(cursor) = 0
    THEN [throws |-> TRUE, error |-> "TypeError", authorization |-> authorization,
          request |-> <<>>]
    ELSE [throws |-> FALSE, error |-> Undefined,
          authorization |-> IF apiKey # Undefined THEN apiKey ELSE authorization,
          request |-> <<[client |-> "alethio",
                         base |-> alethioBaseUrls[networkOrDefault(network)],
                         path |-> "contractMessages",
                         txHash |-> txHash, cursor |-> cursor]>>]

(***************************************************************************)
(* Actions                                                                 *)
(***************************************************************************)
\* about: the transaction hash written into the error's message, as a list
\* of one hash; empty when the message names none
Returned(value) ==
    [kind |-> "return", error |-> Undefined, cause |-> Undefined, value |-> value,
     about |-> <<>>]
Thrown(error, cause) ==
    [kind |-> "throw", error |-> error, cause |-> cause, value |-> Undefined,
     about |-> <<>>]
\* an error whose message names txHash
ThrownFor(error, cause, txHash) ==
    [kind |-> "throw", error |-> error, cause |-> cause, value |-> Undefined,
     about |-> <<txHash>>]

Init ==
    /\ pc = "idle"
    /\ call = [fn |-> "none"]
    /\ requests = <<>>
    /\ result = [kind |-> "pending", error |-> Undefined, cause |-> Undefined,
                 value |-> Undefined, about |-> <<>>]
    /\ traces = <<>>
    /\ nextId = 0
    /\ jsonRpcId = 0
    /\ reason = <<>>
    /\ authorization = Undefined
    /\ server = [home |-> "mainnet",
                 pages |-> [order |-> <<>>, msgType |-> <<>>, cut |-> [k \in {0, 1} |-> 0],
                            np |-> 1, brokenAt |-> 0, brokenKind |-> "none"]]
    /\ messages = <<>>
    /\ details = <<>>

\* GethClient.getTransactionTrace up to the await of axios.post
GethGetTransactionTrace ==
    /\ pc = "idle"
    /\ \E txHash \in TxHashes :
         /\ call' = [fn |-> "getTransactionTrace", txHash |-> txHash]
         /\ IF hashRejected(txHash)
            THEN /\ result' = ThrownFor("TypeError", Undefined, txHash)
                 /\ pc' = "done"
                 /\ UNCHANGED <<requests, jsonRpcId>>
            ELSE /\ requests' = Append(requests,
                        [client |-> "geth", method |-> "debug_traceTransaction",
                         id |-> jsonRpcId, txHash |-> txHash])
                 /\ jsonRpcId' = jsonRpcId + 1
                 /\ pc' = "trace_wait"
                 /\ UNCHANGED result
    /\ UNCHANGED <<traces, nextId, reason>>
    /\ UNCHANGED alethioVars

\* GethClient.getTransactionTrace from the response on: the request fails,
\* or the response carries an error message, struct logs, no result.from
GethTraceFailed ==
    /\ pc = "trace_wait"
    /\ \E response \in {"rejected", "error", "structLogs", "noFrom"} :
         call' = call @@ [response |-> response]
    /\ result' = ThrownFor("VError", "Error", call.txHash)
    /\ pc' = "done"
    /\ UNCHANGED <<requests, traces, nextId, jsonRpcId, reason>>
    /\ UNCHANGED alethioVars

\* GethClient.getTransactionTrace from the response on: the response carries
\* a call tree, which addTraces flattens
GethTraceReceived ==
    /\ pc = "trace_wait"
    /\ \E n \in 1..MaxNodes :
       \E parent \in TreeShapes(n),
          type \in { t \in [1..n -> CallTypes] : t[1] = "CALL" },
          to \in [1..n -> Contracts], errAt \in 0..n :
         LET tree == BuildCallResponse([n |-> n, parent |-> parent, type |-> type,
                                        to |-> to, errAt |-> errAt], 1, Sender)
             r == addTraces(tree, <<>>, 0, 0, 0) IN
         /\ traces' = r.traces
         /\ nextId' = r.id
         /\ call' = call @@ [response |-> "trace", tree |-> tree]
    /\ result' = Returned("traces")
    /\ pc' = "done"
    /\ UNCHANGED <<requests, jsonRpcId, reason>>
    /\ UNCHANGED alethioVars

\* a direct call of the exported parseReasonCode
ParseReasonCode ==
    /\ pc = "idle"
    /\ \E messageData \in MessageDatas :
         LET r == parseReasonCode(messageData) IN
         /\ call' = [fn |-> "parseReasonCode", messageData |-> messageData]
         /\ reason' = r.str
         /\ result' = IF r.ok THEN Returned("string") ELSE Thrown("Error", Undefined)
    /\ pc' = "done"
    /\ UNCHANGED <<requests, traces, nextId, jsonRpcId>>
    /\ UNCHANGED alethioVars

\* GethClient.getTransactionError up to the await of axios.post
GethGetTransactionError ==
    /\ pc = "idle"
    /\ \E hash \in {ValidHash, NotAHash}, status \in BOOLEAN, outOfGas \in BOOLEAN :
         /\ call' = [fn |-> "getTransactionError", txHash |-> hash,
                     status |-> status, outOfGas |-> outOfGas]
         /\ IF hashRejected(hash)
            THEN /\ result' = Thrown("TypeError", Undefined)
                 /\ pc' = "done"
                 /\ UNCHANGED <<requests, jsonRpcId>>
            ELSE IF status
            THEN /\ result' = Returned(Undefined)
                 /\ pc' = "done"
                 /\ UNCHANGED <<requests, jsonRpcId>>
            ELSE IF outOfGas
            THEN /\ result' = Thrown("Error", Undefined)
                 /\ pc' = "done"
                 /\ UNCHANGED <<requests, jsonRpcId>>
            ELSE /\ requests' = Append(requests,
                        [client |-> "geth", method |-> "eth_call",
                         id |-> jsonRpcId, txHash |-> hash])
                 /\ jsonRpcId' = jsonRpcId + 1
                 /\ pc' = "error_wait"
                 /\ UNCHANGED result
    /\ UNCHANGED <<traces, nextId, reason>>
    /\ UNCHANGED alethioVars

\* GethClient.getTransactionError: the eth_call resolves, and the error
\* message of the response (if any) is returned as it is
GethErrorResolved ==
    /\ pc = "error_wait"
    /\ \E message \in {Undefined, "string"} :
         /\ call' = call @@ [response |-> "resolved"]
         /\ result' = Returned(message)
    /\ pc' = "done"
    /\ UNCHANGED <<requests, traces, nextId, jsonRpcId, reason>>
    /\ UNCHANGED alethioVars

\* GethClient.getTransactionError: the eth_call is rejected with a message
\* that is no "Node error: ", or whose error object has no data field or a
\* data field with neither prefix
GethErrorUnparsed ==
    /\ pc = "error_wait"
    /\ \E e \in { [kind |-> k, data |-> <<>>] : k \in {"other", "noData"} }
                  \cup { [kind |-> "noPrefix", data |-> h] : h \in HexPayloads } :
         call' = call @@ [response |-> e.kind, data |-> e.data]
    /\ result' = Thrown("Error", Undefined)
    /\ pc' = "done"
    /\ UNCHANGED <<requests, traces, nextId, jsonRpcId, reason>>
    /\ UNCHANGED alethioVars

\* GethClient.getTransactionError: the eth_call is rejected with a
\* "Node error: " whose data field starts with "Reverted 0x" or "0x"; the
\* prefix is trimmed and the rest handed to parseReasonCode
GethErrorReverted ==
    /\ pc = "error_wait"
    /\ \E prefix \in {RevertedZeroX, ZeroX}, h \in HexPayloads :
         LET data == prefix \o h
             rawMessageData == IF StartsWith(data, RevertedZeroX)
                               THEN Slice(data, 11, Len(data))
                               ELSE Slice(data, 2, Len(data))
             r == parseReasonCode(rawMessageData) IN
         /\ call' = call @@ [response |-> "data", data |-> data]
         /\ reason' = r.str
         /\ result' = IF r.ok THEN Returned("string") ELSE Thrown("Error", Undefined)
    /\ pc' = "done"
    /\ UNCHANGED <<requests, traces, nextId, jsonRpcId>>
    /\ UNCHANGED alethioVars

\* getTransactionDetails up to the await of axios.get
AlethioGetTransactionDetails ==
    /\ pc = "idle"
    /\ \E txHash \in TxHashes, apiKey \in ApiKeys, network \in NetworkArgs :
         /\ call' = [fn |-> "getTransactionDetails", txHash |-> txHash,
                     apiKey |-> apiKey, network |-> network]
         /\ IF hashRejected(txHash)
            THEN /\ result' = ThrownFor("TypeError", Undefined, txHash)
                 /\ pc' = "done"
                 /\ UNCHANGED <<requests, authorization>>
            ELSE /\ authorization' = IF apiKey # Undefined THEN apiKey
                                     ELSE authorization
                 /\ requests' = Append(requests,
                        [client |-> "alethio",
                         base |-> alethioBaseUrls[networkOrDefault(network)],
                         path |-> "transactions",
                         txHash |-> txHash, cursor |-> <<>>])
                 /\ pc' = "details_wait"
                 /\ UNCHANGED result
    /\ UNCHANGED <<server, messages, details>>
    /\ UNCHANGED gethVars

\* getTransactionDetails from the response on: the request fails, the
\* response lacks attributes or relationships, or BigInt() rejects a value
AlethioDetailsFailed ==
    /\ pc = "details_wait"
    /\ \E response \in {"rejected", "noAttributes", "noRelationships", "badValue"} :
         /\ call' = call @@ [response |-> response]
         /\ result' = ThrownFor("VError",
                                 IF response = "badValue" THEN "SyntaxError" ELSE "Error",
                                 call.txHash)
    /\ pc' = "done"
    /\ UNCHANGED <<requests, gethVars, alethioVars>>

\* getTransactionDetails from the response on: details and first message
AlethioDetailsReceived ==
    /\ pc = "details_wait"
    /\ \E msgType \in MsgTypes, msgError \in BOOLEAN :
         /\ call' = call @@ [response |-> "attributes", msgType |-> msgType]
         /\ details' = << [hash |-> call.txHash, status |-> ~msgError],
                          [id |-> 0, type |-> convertType(msgType),
                           callDepth |-> 0, status |-> ~msgError] >>
    /\ result' = Returned("details")
    /\ pc' = "done"
    /\ UNCHANGED <<requests, authorization, server, messages, gethVars>>

\* getContractMessages with a malformed hash
AlethioGetContractMessagesRejected ==
    /\ pc = "idle"
    /\ \E txHash \in TxHashes, apiKey \in ApiKeys, network \in NetworkArgs :
         /\ hashRejected(txHash)
         /\ call' = [fn |-> "getContractMessages", txHash |-> txHash,
                     apiKey |-> apiKey, network |-> network]
         /\ result' = ThrownFor("TypeError", Undefined, txHash)
    /\ pc' = "done"
    /\ UNCHANGED <<requests, gethVars, alethioVars>>

\* getContractMessages up to the await of axios.get; the transaction lives on
\* one network, where the indexer holds its contract messages in pages
AlethioGetContractMessages ==
    /\ pc = "idle"
    /\ \E txHash \in TxHashes, apiKey \in ApiKeys, network \in NetworkArgs :
         /\ ~hashRejected(txHash)
         /\ call' = [fn |-> "getContractMessages", txHash |-> txHash,
                     apiKey |-> apiKey, network |-> network]
         /\ authorization' = IF apiKey # Undefined THEN apiKey ELSE authorization
         /\ requests' = Append(requests,
                [client |-> "alethio",
                 base |-> alethioBaseUrls[networkOrDefault(network)],
                 path |-> "contractMessages",
                 txHash |-> txHash, cursor |-> <<>>])
    /\ \E home \in Networks, pages \in PageSets :
         server' = [home |-> home, pages |-> pages]
    /\ messages' = <<>>
    /\ pc' = "messages_wait"
    /\ UNCHANGED <<result, details, gethVars>>

\* getContractMessages or getContractMessagesRecursive from the response on:
\* the connection fails, or the response holds no array of messages
AlethioMessagesFailed ==
    /\ pc \in {"messages_wait", "cursor_wait"}
    /\ \E response \in {"rejected", "noArray"} :
         call' = [response |-> response] @@ call
    /\ result' = ThrownFor("VError",
                            IF pc = "messages_wait" THEN "Error" ELSE "VError",
                            call.txHash)
    /\ pc' = "done"
    /\ UNCHANGED <<requests, gethVars, alethioVars>>

\* the steps after the messages of a page have been collected into msgs:
\* without hasNext the list is returned (through every pending recursive
\* call) and sorted; with hasNext the cursor is taken from the next link and
\* getContractMessagesRecursive is called with txHash, cursor and msgs only.
\* `wrapped` tells that the page was handled inside the try block of
\* getContractMessagesRecursive, whose catch wraps an error thrown there
\* before the catch of getContractMessages wraps it again.  The rejection of
\* the nested call itself (hash or cursor refused) passes the pending
\* recursive calls, which return its promise without awaiting it, and is
\* wrapped by getContractMessages only.  Every wrapping names the hash.

\* (variant: an unusable next link ends the pagination, and what has been
\* collected is returned)
AfterPage_endOnMissingCursor(page, msgs, wrapped) ==
    IF ~page.hasNext \/ ~page.hasLink \/ Len(splitPop(page.next)) = 0
    THEN /\ messages' = sortById(msgs)
         /\ result' = Returned("messages")
         /\ pc' = "done"
         /\ UNCHANGED <<requests, authorization>>
    ELSE LET rec == getContractMessagesRecursive(call.txHash, splitPop(page.next),
                                                 msgs, Undefined, Undefined)
         IN /\ messages' = msgs
            /\ requests' = requests \o rec.request
            /\ authorization' = rec.authorization
            /\ pc' = "cursor_wait"
            /\ UNCHANGED result

AfterPage(page, msgs, wrapped) ==
    IF ~page.hasNext
    THEN /\ messages' = sortById(msgs)
         /\ result' = Returned("messages")
         /\ pc' = "done"
         /\ UNCHANGED <<requests, authorization>>
    ELSE IF ~page.hasLink
    THEN /\ messages' = msgs
         /\ result' = ThrownFor("VError", IF wrapped THEN "VError" ELSE "TypeError",
                                 call.txHash)
         /\ pc' = "done"
         /\ UNCHANGED <<requests, authorization>>
    ELSE LET nextCursor == splitPop(page.next)
             rec == getContractMessagesRecursive(call.txHash, nextCursor, msgs,
                                                 Undefined, Undefined)
         IN IF rec.throws
            THEN /\ messages' = msgs
                 /\ result' = ThrownFor("VError", rec.error, call.txHash)
                 /\ pc' = "done"
                 /\ UNCHANGED <<requests, authorization>>
            ELSE /\ messages' = msgs
                 /\ requests' = requests \o rec.request
                 /\ authorization' = rec.authorization
                 /\ pc' = "cursor_wait"
                 /\ UNCHANGED result

\* getContractMessages from the response to its request on
AlethioFirstPage ==
    /\ pc = "messages_wait"
    /\ LET response == Respond(server, requests[Len(requests)]) IN
         IF ~response.found
         THEN /\ call' = call @@ [response |-> "notFound"]
              /\ result' = ThrownFor("VError", "Error", call.txHash)
              /\ pc' = "done"
              /\ UNCHANGED <<requests, authorization, messages>>
         ELSE LET page == PageOf(server.pages, response.page) IN
              /\ call' = call @@ [response |-> "page"]
              /\ AfterPage(page, messages \o messagesOf(page.data), FALSE)
    /\ UNCHANGED <<server, details, gethVars>>

\* getContractMessagesRecursive from the response to its request on
AlethioCursorPage ==
    /\ pc = "cursor_wait"
    /\ LET response == Respond(server, requests[Len(requests)]) IN
         IF ~response.found
         THEN /\ call' = [call EXCEPT !.response = "notFound"]
              /\ result' = ThrownFor("VError", "VError", call.txHash)
              /\ pc' = "done"
              /\ UNCHANGED <<requests, authorization, messages>>
         ELSE LET page == PageOf(server.pages, response.page)
                  cursorMessages == messagesOf(page.data)
                  allMessages == messages \o cursorMessages IN
              /\ call' = call
              /\ AfterPage(page, allMessages, TRUE)
    /\ UNCHANGED <<server, details, gethVars>>

Next ==
    \/ GethGetTransactionTrace
    \/ GethTraceFailed
    \/ GethTraceReceived
    \/ ParseReasonCode
    \/ GethGetTransactionError
    \/ GethErrorResolved
    \/ GethErrorUnparsed
    \/ GethErrorReverted
    \/ AlethioGetTransactionDetails
    \/ AlethioDetailsFailed
    \/ AlethioDetailsReceived
    \/ AlethioGetContractMessagesRejected
    \/ AlethioGetContractMessages
    \/ AlethioMessagesFailed
    \/ AlethioFirstPage
    \/ AlethioCursorPage

Spec == Init /\ [][Next]_vars

(***************************************************************************)
(* Properties of the trace flattener                                       *)
(***************************************************************************)
RECURSIVE PreOrder(_)
\* the nodes of a call tree in pre-order: a call, then the nodes of each of
\* its children's subtrees, the children in their `calls` order
PreOrder(callResponse) ==
    <<callResponse>> \o
      Flatten([k \in 1..Len(callResponse.calls) |-> PreOrder(callResponse.calls[k])],
              1, Len(callResponse.calls))

\* getTransactionTrace has flattened the call tree call.tree into traces
Flattened ==
    pc = "done" /\ call.fn = "getTransactionTrace" /\ result.kind = "return"

\* C1: addTraces(tree, [], 0, 0) yields one trace per node of the tree; the
\* trace at list position i has id i (counted from 0) and is the i-th node
\* of the tree in pre-order; the returned counter is the node count.
C1_PreOrderIds ==
    Flattened =>
      LET nodes == PreOrder(call.tree) IN
        /\ Len(traces) = Len(nodes)
        /\ nextId = Len(nodes)
        /\ \A i \in 1..Len(traces) :
             /\ traces[i].id = i - 1
             /\ traces[i].from = nodes[i].from
             /\ traces[i].to = nodes[i].to
             /\ traces[i].type = gethConvertType(nodes[i])
             /\ traces[i].error = nodes[i].error

\* a tree whose pre-order differs from its level order has been flattened
C1_Witness ==
    /\ Flattened
    /\ Len(traces) = 4
    /\ Len(call.tree.calls) = 2
    /\ Len(call.tree.calls[1].calls) = 1
    /\ call.tree.calls[1].calls[1].to # call.tree.calls[2].to

\* the tree is the chain Root -(CALL)-> A -(DELEGATECALL)-> B
\* -(DELEGATECALL)-> C
IsDelegateChain(tree) ==
    /\ tree.type = "CALL" /\ tree.from = Sender /\ tree.to = "A"
    /\ Len(tree.calls) = 1
    /\ tree.calls[1].type = "DELEGATECALL" /\ tree.calls[1].to = "B"
    /\ Len(tree.calls[1].calls) = 1
    /\ tree.calls[1].calls[1].type = "DELEGATECALL"
    /\ tree.calls[1].calls[1].to = "C"
    /\ Len(tree.calls[1].calls[1].calls) = 0

C4_DepthAndParent ==
    Flattened =>
      /\ traces[1].depth = 0
      /\ traces[1].parentTrace = 0
      /\ \A j \in 1..Len(traces) : \A k \in 1..Len(traces[j].childTraces) :
           traces[j].childTraces[k] # 1
      /\ \A i \in 2..Len(traces) :
           /\ traces[i].parentTrace \in 1..Len(traces)
           /\ traces[traces[i].parentTrace].depth = traces[i].depth - 1
           /\ \A j \in 1..Len(traces) :
                Cardinality({ k \in 1..Len(traces[j].childTraces) :
                                traces[j].childTraces[k] = i })
                  = IF j = traces[i].parentTrace THEN 1 ELSE 0

\* a tree three levels deep with two calls on one level has been flattened
C4_Witness ==
    /\ Flattened
    /\ \E i \in 1..Len(traces) : traces[i].depth = 2
    /\ \E j \in 1..Len(traces) : Len(traces[j].childTraces) = 2

\* the one node of the tree carrying an error is a leaf
OneFailedLeaf(nodes) ==
    /\ Cardinality({ i \in 1..Len(nodes) : nodes[i].error # Undefined }) = 1
    /\ \A i \in 1..Len(nodes) : nodes[i].error # Undefined => Len(nodes[i].calls) = 0

\* C8: when exactly one leaf of the tree carries an error, there is still one
\* trace for every node, the failed leaf's trace carries that error and
\* every other trace carries none.
C8_PartialFailure ==
    (Flattened /\ OneFailedLeaf(PreOrder(call.tree))) =>
      LET nodes == PreOrder(call.tree) IN
        /\ Len(traces) = Len(nodes)
        /\ \A i \in 1..Len(nodes) :
             /\ traces[i].to = nodes[i].to
             /\ IF nodes[i].error # Undefined
                THEN traces[i].error = nodes[i].error
                ELSE traces[i].error = Undefined

\* a failed leaf that has a later sibling, both flattened
C8_Witness ==
    /\ Flattened
    /\ Len(traces) >= 3
    /\ traces[2].error = ErrorText
    /\ traces[2].childTraces = <<>>
    /\ traces[3].parentTrace = 1
    /\ traces[3].error = Undefined
    /\ traces[1].error = Undefined

(***************************************************************************)
(* Properties of the revert-reason decoder                                 *)
(***************************************************************************)
\* parseReasonCode has been called with call.messageData
Parsed == pc = "done" /\ call.fn = "parseReasonCode"

\* getTransactionError has handed the trimmed data field to parseReasonCode
ErrorDecoded ==
    /\ pc = "done"
    /\ call.fn = "getTransactionError"
    /\ "response" \in DOMAIN call
    /\ call.response = "data"

\* C7 (as claimed): for every string s, parseReasonCode of the 0x-prefixed
\* hex string of the Error(string) encoding of s returns s.
C7_Claimed ==
    Parsed =>
      \A s \in ReasonStrings :
        call.messageData = ZeroX \o EncodeError(s) =>
          result.kind = "return" /\ reason = s

\* C7 (amended): for every string s, parseReasonCode of the hex string of
\* the Error(string) encoding of s WITHOUT the 0x prefix returns s; this
\* is the form getTransactionError hands over after trimming "0x" or
\* "Reverted 0x" from the node's data field.
C7_RoundTrip ==
    /\ Parsed =>
         \A s \in ReasonStrings :
           call.messageData = EncodeError(s) =>
             result.kind = "return" /\ reason = s
    /\ ErrorDecoded =>
         \A s \in ReasonStrings :
           (call.data = ZeroX \o EncodeError(s)
              \/ call.data = RevertedZeroX \o EncodeError(s)) =>
             result.kind = "return" /\ reason = s

C7_Witness ==
    /\ Parsed
    /\ call.messageData = EncodeError(InsufficientBalance)
    /\ reason = InsufficientBalance
    /\ result.kind = "return"

\* C10 (as claimed): when the hex string is too short to hold the selector,
\* the offset word and the length word, parseReasonCode fails with a decode
\* error instead of returning a string.
C10_Claimed ==
    (Parsed /\ Len(call.messageData) < 8 + 128) => result.kind = "throw"

(***************************************************************************)
(* Properties of the indexer client                                        *)
(***************************************************************************)
\* the messages of all pages of the indexer, page after page
AllPagesMessages ==
    Flatten([k \in 1..server.pages.np |-> messagesOf(PageOf(server.pages, k).data)],
            1, server.pages.np)

\* getContractMessages has ended for a well-formed hash, a transaction that
\* lives on the network the caller names, pages whose next links all carry a
\* cursor, and an indexer that answered every request it received
Paginated ==
    /\ pc = "done"
    /\ call.fn = "getContractMessages"
    /\ transactionHash(call.txHash)
    /\ networkOrDefault(call.network) = server.home
    /\ server.pages.brokenAt = 0
    /\ call.response \notin {"rejected", "noArray"}

\* C5 (as claimed): for any sequence of pages of which all but the last
\* signal hasNext, getContractMessages fetches each page exactly once in
\* cursor order, each request after the first carrying the cursor of the
\* previous page's next link, stops after the page without hasNext, and
\* returns all pages' records sorted by id, none lost, none twice.
C5_Claimed ==
    Paginated =>
      /\ result.kind = "return"
      /\ Len(requests) = server.pages.np
      /\ requests[1].cursor = <<>>
      /\ \A k \in 1..Len(requests) :
           /\ Respond(server, requests[k]) = [found |-> TRUE, page |-> k]
           /\ k > 1 => requests[k].cursor = splitPop(PageOf(server.pages, k - 1).next)
      /\ Len(messages) = Len(AllPagesMessages)
      /\ \A i \in 1..Len(AllPagesMessages) :
           Cardinality({ j \in 1..Len(messages) : messages[j] = AllPagesMessages[i] }) = 1
      /\ \A i, j \in 1..Len(messages) : i < j => messages[i].id < messages[j].id

\* the entry points of the claim on malformed hashes
HashEntryPoints ==
    {"getTransactionDetails", "getContractMessages", "getTransactionTrace"}

\* C6: a call of getTransactionDetails, getContractMessages or
\* GethClient.getTransactionTrace with a hash that is not 0x and 64 hex
\* digits ends at once with a TypeError: no HTTP request has been issued, no
\* header set, no request id used, nothing collected.
C6_MalformedHash ==
    (call.fn \in HashEntryPoints /\ ~transactionHash(call.txHash)) =>
      /\ pc = "done"
      /\ result = ThrownFor("TypeError", Undefined, call.txHash)
      /\ requests = <<>>
      /\ authorization = Undefined
      /\ jsonRpcId = 0
      /\ messages = <<>> /\ traces = <<>> /\ details = <<>>

\* getContractMessages("not-a-hash", "key") has thrown
C6_Witness ==
    /\ pc = "done"
    /\ call.fn = "getContractMessages"
    /\ call.txHash = NotAHash
    /\ call.apiKey = "key"
    /\ result.error = "TypeError"

\* the Message type the tags of the indexer's vocabulary stand for
TypeOfTag(msgType) ==
    IF msgType \in {"ValueContractMsg", "ValueTx"} THEN "Value"
    ELSE IF msgType \in {"CreateContractMsg", "CreateTx"} THEN "Create"
    ELSE IF msgType \in {"SelfdestructContractMsg", "SelfdestructTx"}
    THEN "Selfdestruct"
    ELSE "Call"

\* C9 (as claimed): the indexer client's convertType maps value tags to
\* Value, create tags to Create, selfdestruct tags to Selfdestruct, call tags
\* and unrecognized tags to Call; seen on the first message that
\* getTransactionDetails returns and on the messages getContractMessages
\* collects.
C9_Claimed ==
    /\ (pc = "done" /\ call.fn = "getTransactionDetails" /\ result.kind = "return") =>
         details[2].type = TypeOfTag(call.msgType)
    /\ (pc = "done" /\ call.fn = "getContractMessages" /\ result.kind = "return") =>
         \A i \in 1..Len(messages) :
           \E j \in 1..Len(server.pages.order) :
             /\ server.pages.order[j] = messages[i].id
             /\ messages[i].type = TypeOfTag(server.pages.msgType[j])

\* getContractMessages has fetched the page whose next link is unusable:
\* that page signals hasNext, it was the answer to the last request, and no
\* request failed
MissingCursorMet ==
    /\ pc = "done"
    /\ call.fn = "getContractMessages"
    /\ transactionHash(call.txHash)
    /\ server.pages.brokenAt # 0
    /\ Len(requests) = server.pages.brokenAt
    /\ call.response = "page"
    /\ Respond(server, requests[Len(requests)])
         = [found |-> TRUE, page |-> server.pages.brokenAt]
    /\ PageOf(server.pages, server.pages.brokenAt).hasNext

\* C11: when a fetched page, the first or a later one, signals hasNext and
\* its next link yields no non-empty cursor (the link is missing or nothing
\* follows its last "="), getContractMessages fails with a VError whose
\* message names the transaction hash, and returns no message list.
C11_MissingCursor ==
    MissingCursorMet =>
      /\ result.kind = "throw"
      /\ result.error = "VError"
      /\ result.about = <<call.txHash>>
      /\ result.value = Undefined

\* the second page, fetched with a cursor, has a next link ending in "=",
\* and messages of two pages had been collected
C11_Witness ==
    /\ MissingCursorMet
    /\ server.pages.brokenAt = 2
    /\ server.pages.brokenKind = "emptyCursor"
    /\ Len(messages) >= 2
    /\ result.kind = "throw"

\* C12 (as claimed): every request of a call getContractMessages(txHash,
\* apiKey, network), for the first page and for every cursor page, goes to
\* the base URL of the network the caller passed.
C12_Claimed ==
    call.fn = "getContractMessages" =>
      \A k \in 1..Len(requests) :
        requests[k].base = alethioBaseUrls[networkOrDefault(call.network)]

====
